---- MODULE Spec2Model ----
(***************************************************************************)
(* A model of projectionlab.py: the crypto price fetch with retry and      *)
(* cache, the balance calculation, the browser session that logs in and    *)
(* pushes the balances, and main with its lock file.                       *)
(*                                                                         *)
(* Conventions.  Python's None is the empty tuple, a number n is <<n>>.    *)
(* A dict is a function; the empty dict is the function of empty domain.   *)
(* Text on which the code does string surgery is a sequence of one-        *)
(* character strings.  Amounts and prices are counted in tenths, so a      *)
(* value (amount x price) is in hundredths.                                *)
(***************************************************************************)
EXTENDS Integers, Sequences, FiniteSets, TLC

VARIABLES
    \* ---- price fetch and cache (get_cached_crypto_prices) ----
    cache,      \* the file CRYPTO_CACHE_FILE
    now,        \* time.time()
    fpc,        \* position in get_cached_crypto_prices
    fids,       \* crypto_ids of the running call
    attempt,    \* loop variable of get_crypto_prices
    nreq,       \* provider requests issued by the running call
    sleeps,     \* the time.sleep calls of the running call
    prices,     \* the mapping the call returns
    resps,      \* the responses get_crypto_prices has seen in this call
    got,        \* the 200 response get_crypto_prices returned from
    last,       \* what the last finished call did
    ncalls,     \* finished calls
    \* ---- balance calculation (calculate_account_balances) ----
    accounts,        \* the accounts of accounts.yaml, in order
    stock_prices,    \* symbol -> price
    pl_api_key,      \* the write key
    cpc,             \* position in calculate_account_balances
    calc_raised,     \* calculate_account_balances raised
    update_commands, \* the commands built so far
    totals,          \* total_usd of each account processed
    summaries,       \* assets_summary of each account processed
    returned,        \* the lists returned by calculate_account_balances, call after call
    \* ---- the browser session (update_projectionlab) ----
    spc,         \* position in update_projectionlab and handle_mfa_code
    pl_mfa,      \* the MFA key of the configuration: "none", "key" or "masked"
    browser,     \* the WebDriver: "none", "running" or "quit"
    quits,       \* calls of driver.quit()
    mfa_code,    \* the code handle_mfa_code works with
    window,      \* the TOTP time window
    depth,       \* the calls of handle_mfa_code on the stack
    submitted,   \* the codes handle_mfa_code had in hand when it clicked the
                 \* submit button, in order
    typed,       \* how many digits of mfa_code the last call of handle_mfa_code
                 \* typed into the OTP fields: what the page got with the click
    rejected,    \* submissions after which the OTP fields were still there
    mfa_handled, \* what handle_mfa_code returned
    otp_group,   \* the OTP input group on the page when line 614 is reached
    submit_click, \* the click of lines 411-445 in the running handle_mfa_code
    fresh_code,  \* <<fresh_mfa_code>> of line 464 in the running handle_mfa_code, or <<>>
    elapsed,     \* seconds wait_for_login_completion has been waiting for the
                 \* plugin API (its clock of line 491 is local to the call:
                 \* 0 again once the call has returned True)
    login_successful, \* wait_for_login_completion saw the plugin API
    ei,          \* index of the next command of the loop
    executed,    \* the commands invoked on the page, in order
    execlog,     \* the "Executing command" log lines
    result,      \* what update_projectionlab returned
    why,         \* the exit path taken
    \* ---- main and the lock file ----
    lockfile,    \* the file LOCK_FILE_PATH
    lpc,         \* position of each process in main
    lock_file_time, \* the mtime each process read in obtain_lock
    obtained,    \* what obtain_lock returned to each process
    releases,    \* calls of release_lock by each process
    lock_error,  \* obtain_lock logged an error for the process
    exit_code,   \* the exit status of each process
    mpc,         \* position of the run in the body of main
    env,         \* the environment variables main reads
    id_list,     \* the list get_crypto_ids_from_accounts returned to main
    outcome      \* how the try block of main ended

fetchVars == <<cache, now, fpc, fids, attempt, nreq, sleeps, resps, prices, got, last, ncalls>>

calcVars == <<accounts, stock_prices, pl_api_key, cpc, calc_raised, update_commands, totals,
              summaries, returned>>

ctlVars == <<spc, result, why, browser, quits>>
mfaVars == <<mfa_code, window, depth, submitted, typed, rejected, mfa_handled, otp_group,
             submit_click, fresh_code>>
execVars == <<ei, executed, execlog, login_successful>>
sessVars == <<ctlVars, pl_mfa, mfaVars, elapsed, execVars>>

lockVars == <<lockfile, lpc, lock_file_time, obtained, releases, lock_error, exit_code>>
mainVars == <<mpc, env, id_list, outcome>>

vars == <<fetchVars, calcVars, sessVars, lockVars, mainVars>>

\* what the steps of one part leave alone
outsideFetch == <<calcVars, sessVars, lockVars, mainVars>>
outsideCalc == <<fetchVars, sessVars, lockVars, mainVars>>
outsideSess == <<fetchVars, calcVars, lockVars, mainVars>>
outsideLock == <<cache, fpc, fids, attempt, nreq, sleeps, resps, prices, got, last, ncalls,
                 calcVars, sessVars, mainVars>>

----------------------------------------------------------------------------
\* Values

None == <<>>
Num(n) == <<n>>
IsNone(v) == v = None
EmptyDict == <<>>

Range(f) == {f[x] : x \in DOMAIN f}

RECURSIVE SumSeq(_)
SumSeq(s) == IF s = <<>> THEN 0 ELSE Head(s) + SumSeq(Tail(s))

RECURSIVE Pow2(_)
Pow2(k) == IF k = 0 THEN 1 ELSE 2 * Pow2(k - 1)

----------------------------------------------------------------------------
\* Bounds of the model

MaxTime == 620
MaxCalls == 2
MaxFetchCalls == 1
\* the calls of handle_mfa_code the interpreter's stack has room for (about
\* a thousand in CPython: the recursion limit less the frames below)
RecursionLimit == 3
MaxLockTime == 3601
\* longest accounts list given to get_crypto_ids_from_accounts on its own
MaxAccounts == 3
\* calls of calculate_account_balances with the same arguments
MaxCalcCalls == 2

\* Program constants

max_retries == 3
retry_delay == 5
cache_duration == 300
login_timeout == 30
stale_after == 3600
DEFAULT_CRYPTO_IDS == {"bitcoin", "ethereum"}

----------------------------------------------------------------------------
\* The provider (CoinGecko) as the code sees it


\* the id lists main can ask for
IdLists == {{"bitcoin"}, {"bitcoin", "ethereum"}, {"bitcoin", "solana"}}

\* one entry of the response body: {"usd": n}, {"usd": null}, or no usd key
NoUsd == [usd |-> FALSE, val |-> None]
Usd(v) == [usd |-> TRUE, val |-> v]
Entries == {Usd(Num(500000)), Usd(Num(-10)), Usd(None), NoUsd}

\* response bodies: a dict from some ids to entries
Bodies ==
    {[i \in {} |-> NoUsd]}
    \cup [{"bitcoin"} -> Entries]
    \cup {[i \in {"bitcoin", "ethereum"} |-> IF i = "bitcoin" THEN e ELSE Usd(Num(30000))] :
            e \in {Usd(Num(500000)), NoUsd}}
    \cup {[i \in {"bitcoin", "solana"} |-> Usd(Num(500000))]}

\* what one requests.get can bring
Outcomes ==
    {[kind |-> "429", hdr |-> h, secs |-> 2, body |-> EmptyDict] : h \in {"absent", "int", "date"}}
    \cup {[kind |-> k, hdr |-> "absent", secs |-> 0, body |-> EmptyDict] :
            k \in {"http_error", "network_error", "malformed"}}
    \cup {[kind |-> "ok", hdr |-> "absent", secs |-> 0, body |-> b] : b \in Bodies}

----------------------------------------------------------------------------
\* get_crypto_prices, one loop iteration at a time

\* lines 199-206: the price of one id, extracted from the body
ExtractPrice(data, crypto_id) ==
    IF crypto_id \in DOMAIN data /\ data[crypto_id].usd
        THEN data[crypto_id].val
        ELSE None

\* line 203 formats the price with :,.2f, which raises TypeError on None
LogPriceRaises(data, crypto_ids) ==
    \E i \in crypto_ids :
        i \in DOMAIN data /\ data[i].usd /\ IsNone(data[i].val)

\* a mapping that leaves out the ids the response does not hold
ExtractPrices_present_only(data, crypto_ids) ==
    [i \in crypto_ids \cap DOMAIN data |-> ExtractPrice(data, i)]

\* lines 195-208: the mapping built from a 200 response
ExtractPrices(data, crypto_ids) ==
    [i \in crypto_ids |-> ExtractPrice(data, i)]

\* line 187: int(response.headers.get('Retry-After', retry_delay))
RetryAfterRaises(o) == o.hdr = "date"
RetryAfter(o) == IF o.hdr = "int" THEN o.secs ELSE retry_delay

\* lines 186-190: the iteration ends with `continue`
IsRateLimited(o) == o.kind = "429" /\ ~RetryAfterRaises(o)

\* lines 193-208: the iteration returns
IsSuccess(o, crypto_ids) == o.kind = "ok" /\ ~LogPriceRaises(o.body, crypto_ids)

\* line 218
backoff_time(att) == retry_delay * Pow2(att)

\* lines 216-222: the sleep after a caught exception
BackoffSleeps(att) ==
    IF att < max_retries - 1 THEN <<[why |-> "backoff", secs |-> backoff_time(att)]>> ELSE <<>>

\* the sleeps one iteration adds
IterationSleeps(o, crypto_ids, att) ==
    IF IsRateLimited(o) THEN <<[why |-> "retry_after", secs |-> RetryAfter(o)]>>
    ELSE IF IsSuccess(o, crypto_ids) THEN <<>>
    ELSE BackoffSleeps(att)

RECURSIVE SumSecs(_)
SumSecs(s) == IF s = <<>> THEN 0 ELSE Head(s).secs + SumSecs(Tail(s))

\* a loop that runs once more than max_retries
LoopRuns_off_by_one(att) == att <= max_retries

\* line 177: the loop goes on while attempt < max_retries
LoopRuns(att) == att < max_retries

----------------------------------------------------------------------------
\* get_cached_crypto_prices

CacheAbsent == [state |-> "absent", timestamp |-> 0, prices |-> EmptyDict]
CacheRecord(t, p) == [state |-> "record", timestamp |-> t, prices |-> p]
\* the file is there and json.load raises on it: open(..., 'w') of line 294 has
\* emptied it and the write of line 295 did not complete
CacheUnreadable == [state |-> "unreadable", timestamp |-> 0, prices |-> EmptyDict]

\* line 260
CacheFresh(c, t) == t - c.timestamp < cache_duration

\* line 264
missing_ids(c, crypto_ids) == {i \in crypto_ids : i \notin DOMAIN c.prices}

\* a log line that formats any cached value
CacheLogRaises_never(c, crypto_ids) == FALSE

\* lines 268-270: logging a cached price of None raises TypeError,
\* which line 276 catches
CacheLogRaises(c, crypto_ids) ==
    \E i \in DOMAIN c.prices : i \in crypto_ids /\ IsNone(c.prices[i])

\* lines 252-277: the cached mapping is returned
CacheServes(c, crypto_ids, t) ==
    /\ c.state = "record"
    /\ CacheFresh(c, t)
    /\ missing_ids(c, crypto_ids) = {}
    /\ ~CacheLogRaises(c, crypto_ids)

\* a write that merges the new mapping into the prior record
WrittenRecord_merge(old, t, p) ==
    CacheRecord(t, [i \in DOMAIN p \cup DOMAIN old.prices |->
                        IF i \in DOMAIN p THEN p[i] ELSE old.prices[i]])

\* lines 286-295: the record written
WrittenRecord(old, t, p) == CacheRecord(t, p)

NoBody == [ok |-> FALSE, body |-> EmptyDict]
NoCall == [hit |-> FALSE, requests |-> 0, wrote |-> FALSE, replaced |-> {}]

\* no call of get_cached_crypto_prices has been made, no cache file exists
FetchAtRest ==
    /\ cache = CacheAbsent
    /\ now = 0
    /\ fpc = "idle"
    /\ fids = {}
    /\ attempt = 0
    /\ nreq = 0
    /\ sleeps = <<>>
    /\ resps = <<>>
    /\ prices = EmptyDict
    /\ got = NoBody
    /\ last = NoCall
    /\ ncalls = 0

\* time passes between two runs
Advances == {299, 300}

Tick ==
    /\ fpc = "idle"
    /\ ncalls > 0
    /\ \E d \in Advances :
        /\ now + d <= MaxTime
        /\ now' = now + d
    /\ UNCHANGED <<cache, fpc, fids, attempt, nreq, sleeps, resps, prices, got, last, ncalls>>
    /\ UNCHANGED outsideFetch

\* lines 246-281: the cache is read; a hit returns, a miss goes on to fetch
get_cached_crypto_prices(maxcalls, idlists) ==
    /\ fpc = "idle"
    /\ ncalls < maxcalls
    /\ \E crypto_ids \in idlists :
        /\ fids' = crypto_ids
        /\ IF CacheServes(cache, crypto_ids, now)
             THEN /\ fpc' = "idle"
                  /\ prices' = cache.prices
                  /\ ncalls' = ncalls + 1
                  /\ last' = [NoCall EXCEPT !.hit = TRUE]
             ELSE /\ fpc' = "fetch"
                  /\ prices' = EmptyDict
                  /\ last' = NoCall
                  /\ UNCHANGED ncalls
    /\ UNCHANGED <<cache, now, attempt, nreq, sleeps, resps, got>>
    /\ UNCHANGED outsideFetch

\* lines 177-224: one iteration of the retry loop, or the exit of the loop
get_crypto_prices(provider) ==
    /\ fpc = "fetch"
    /\ IF LoopRuns(attempt)
         THEN \E o \in provider :
                LET sl == IterationSleeps(o, fids, attempt) IN
                /\ nreq' = nreq + 1
                /\ attempt' = attempt + 1
                /\ sleeps' = sleeps \o sl
                /\ resps' = Append(resps, o)
                /\ now' = now + SumSecs(sl)
                /\ IF IsSuccess(o, fids)
                     THEN /\ prices' = ExtractPrices(o.body, fids)
                          /\ got' = [ok |-> TRUE, body |-> o.body]
                          /\ fpc' = "write"
                     ELSE /\ prices' = EmptyDict
                          /\ got' = got
                          /\ fpc' = "fetch"
         ELSE /\ prices' = EmptyDict
              /\ fpc' = "write"
              /\ UNCHANGED <<nreq, attempt, sleeps, resps, now, got>>
    /\ UNCHANGED <<cache, fids, last, ncalls>>
    /\ UNCHANGED outsideFetch

\* lines 283-300: the cache is written when the mapping is not empty
update_cache ==
    /\ fpc = "write"
    /\ \E write \in {"ok", "open_raises", "dump_raises"} :
        LET writes == prices # EmptyDict /\ write = "ok" IN
        /\ cache' = IF prices = EmptyDict \/ write = "open_raises" THEN cache
                     ELSE IF write = "dump_raises" THEN CacheUnreadable
                     ELSE WrittenRecord(cache, now, prices)
        /\ last' = [hit |-> FALSE, requests |-> nreq, wrote |-> writes,
                    replaced |-> IF writes THEN DOMAIN cache.prices ELSE {}]
    /\ fpc' = "idle"
    /\ ncalls' = ncalls + 1
    /\ attempt' = 0
    /\ nreq' = 0
    /\ sleeps' = <<>>
    /\ resps' = <<>>
    /\ got' = NoBody
    /\ UNCHANGED <<now, fids, prices>>
    /\ UNCHANGED outsideFetch

\* the provider as the cache runs see it
CacheBodies ==
    {[i \in {"bitcoin"} |-> e] : e \in {Usd(Num(500000)), NoUsd}}
    \cup {[i \in {"bitcoin", "ethereum"} |-> Usd(Num(30000))]}
    \cup {[i \in {"bitcoin", "solana"} |-> Usd(Num(500000))]}

CacheOutcomes ==
    {o \in Outcomes : o.kind = "network_error" \/ (o.kind = "ok" /\ o.body \in CacheBodies)}

----------------------------------------------------------------------------
\* Text: a string is a sequence of one-character strings

\* s[i:] (0-based i)
From(s, i) == SubSeq(s, i + 1, Len(s))

StartsWith(s, pre) == Len(s) >= Len(pre) /\ SubSeq(s, 1, Len(pre)) = pre

\* str.find: the 0-based index of the first occurrence of sep, or -1
Find(s, sep) ==
    LET hits == {i \in 0..(Len(s) - Len(sep)) : SubSeq(s, i + 1, i + Len(sep)) = sep} IN
    IF hits = {} THEN -1 ELSE CHOOSE i \in hits : \A j \in hits : i <= j

Contains(s, sub) == Find(s, sub) >= 0

\* str.split(sep) for a sep that is not empty
RECURSIVE Split(_, _)
Split(s, sep) ==
    LET i == Find(s, sep) IN
    IF i < 0 THEN <<s>>
    ELSE <<SubSeq(s, 1, i)>> \o Split(From(s, i + Len(sep)), sep)

\* str.replace(old, new) for an empty old: new goes before every character
\* and at the end
Interleave(s, new) ==
    LET b == Len(new) + 1 IN
    [p \in 1..(Len(s) * b + Len(new)) |->
        IF (p - 1) % b < Len(new) THEN new[((p - 1) % b) + 1] ELSE s[((p - 1) \div b) + 1]]

\* str.replace(old, new): left to right, without overlap
RECURSIVE Replace(_, _, _)
Replace(s, old, new) ==
    IF old = <<>> THEN Interleave(s, new)
    ELSE LET i == Find(s, old) IN
         IF i < 0 THEN s
         ELSE SubSeq(s, 1, i) \o new \o Replace(From(s, i + Len(old)), old, new)

\* the decimal digits of n >= 0
RECURSIVE Digits(_)
Digits(n) ==
    LET d == <<"0", "1", "2", "3", "4", "5", "6", "7", "8", "9">> IN
    IF n < 10 THEN <<d[n + 1]>> ELSE Digits(n \div 10) \o <<d[(n % 10) + 1]>>

Abs(n) == IF n < 0 THEN -n ELSE n

\* f"{x:.2f}" of a value counted in hundredths; of a float that is this
\* value but for a rounding error, unless the value is 0 (see BalanceTexts)
Fmt2(c) ==
    (IF c < 0 THEN <<"-">> ELSE <<>>)
    \o Digits(Abs(c) \div 100) \o <<".">>
    \o Digits((Abs(c) % 100) \div 10) \o Digits(Abs(c) % 10)

----------------------------------------------------------------------------
\* calculate_account_balances

CmdHead == <<"w", "i", "n", "d", "o", "w", ".", "p", "r", "o", "j", "e", "c", "t", "i", "o", "n", "l", "a", "b", "P", "l", "u", "g", "i", "n", "A", "P", "I", ".", "u", "p", "d", "a", "t", "e", "A", "c", "c", "o", "u", "n", "t", "(", "'">>
CmdBalance == <<"'", ",", " ", "{", " ", "b", "a", "l", "a", "n", "c", "e", ":", " ">>
CmdKey == <<" ", "}", ",", " ", "{", " ", "k", "e", "y", ":", " ", "'">>
CmdTail == <<"'", " ", "}", ")">>

\* line 367; balance is the text {total_usd:.2f} gives, one of BalanceTexts
Command(id, balance, key) ==
    CmdHead \o id \o CmdBalance \o balance \o CmdKey \o key \o CmdTail

\* lines 342-349: one crypto holding
CryptoItem(acc, crypto_id, amount, crypto_prices) ==
    IF crypto_id \in DOMAIN crypto_prices /\ ~IsNone(crypto_prices[crypto_id])
        THEN LET crypto_value == amount * crypto_prices[crypto_id][1] IN
             IF crypto_value > 0
                THEN [total |-> acc.total + crypto_value,
                      summary |-> Append(acc.summary, [asset |-> crypto_id, amount |-> amount,
                                                       value |-> crypto_value])]
                ELSE acc
        ELSE acc

\* lines 338-349: the crypto holdings, in the order of the mapping
RECURSIVE CryptoLoop(_, _, _)
CryptoLoop(acc, crypto_assets, crypto_prices) ==
    IF crypto_assets = <<>> THEN acc
    ELSE CryptoLoop(CryptoItem(acc, Head(crypto_assets).id, Head(crypto_assets).amount,
                               crypto_prices),
                    Tail(crypto_assets), crypto_prices)

\* a stock holding that is listed in the summary and left out of the total
StockItem_not_added(acc, symbol, shares, sprices) ==
    IF symbol \in DOMAIN sprices
        THEN [total |-> acc.total,
              summary |-> Append(acc.summary, [asset |-> symbol, amount |-> shares,
                                               value |-> shares * sprices[symbol]])]
        ELSE acc

\* lines 355-364: one stock holding
StockItem(acc, symbol, shares, sprices) ==
    IF symbol \in DOMAIN sprices
        THEN LET stock_value == shares * sprices[symbol] IN
             [total |-> acc.total + stock_value,
              summary |-> Append(acc.summary, [asset |-> symbol, amount |-> shares,
                                               value |-> stock_value])]
        ELSE acc

\* lines 352-364
RECURSIVE StockLoop(_, _, _)
StockLoop(acc, stock_assets, sprices) ==
    IF stock_assets = <<>> THEN acc
    ELSE StockLoop(StockItem(acc, Head(stock_assets).symbol, Head(stock_assets).shares, sprices),
                   Tail(stock_assets), sprices)

\* lines 334-364: total_usd and assets_summary of one account
AccountBalance(account, crypto_prices, sprices) ==
    StockLoop(CryptoLoop([total |-> 0, summary |-> <<>>], account.crypto, crypto_prices),
              account.stock, sprices)

\* line 367: {total_usd:.2f}. total_usd is a sum of binary floats: it lies
\* within a rounding error of the exact sum, so its two decimals are those of
\* the exact sum, except that a sum in which a negative stock value cancels the
\* rest may be a negative residue instead of zero, which is formatted "-0.00"
BalanceTexts(bal) ==
    IF bal.total = 0 /\ \E k \in 1..Len(bal.summary) : bal.summary[k].value < 0
        THEN {Fmt2(0), <<"-">> \o Fmt2(0)}
        ELSE {Fmt2(bal.total)}

\* the accounts.yaml files of the model; amounts and shares in tenths
Holding(i, a) == [id |-> i, amount |-> a]
Share(sym, n) == [symbol |-> sym, shares |-> n]
Account(id, crypto, stock) == [id |-> id, crypto |-> crypto, stock |-> stock, name |-> TRUE]
\* the same account without the key 'name'
Unnamed(account) == [account EXCEPT !.name = FALSE]

AccountA == Account(<<"a", "1">>, <<Holding("bitcoin", 10)>>, <<>>)
AccountB == Account(<<"b", "2">>, <<>>, <<Share("AAPL", 100)>>)
AccountC == Account(<<"c", "3">>, <<Holding("bitcoin", 5), Holding("ethereum", 20)>>,
                    <<Share("AAPL", 10)>>)
AccountD == Account(<<"d", "4">>, <<Holding("bitcoin", 5)>>, <<>>)

AccountLists ==
    {<<>>, <<AccountA>>, <<AccountB, AccountD>>, <<AccountC, AccountA>>, <<AccountA, AccountC>>,
     <<Unnamed(AccountA), AccountC>>}

\* crypto price mappings get_cached_crypto_prices can return; prices in tenths
CryptoPriceMaps ==
    {[i \in {"bitcoin"} |-> p] : p \in {Num(500000), Num(-10), Num(0), None}}
    \cup {[i \in {"bitcoin", "ethereum"} |-> IF i = "bitcoin" THEN Num(600000) ELSE p] :
            p \in {Num(30000), None}}

StockPriceMaps == {EmptyDict, [i \in {"AAPL"} |-> 1500]}

ApiKeys == {<<"k", "9">>, <<"k", "'", "9">>}

\* calculate_account_balances has not been called
CalcAtRest ==
    /\ cpc = 0
    /\ calc_raised = FALSE
    /\ update_commands = <<>>
    /\ totals = <<>>
    /\ summaries = <<>>
    /\ returned = <<>>

\* lines 329-331: the call, with its arguments
InitCalc ==
    /\ accounts \in AccountLists
    /\ stock_prices \in StockPriceMaps
    /\ pl_api_key \in ApiKeys
    /\ prices \in CryptoPriceMaps
    /\ CalcAtRest

\* lines 333-374: the loop body, for the next account; line 371 raises
\* KeyError for an account without a name
calculate_account_balances ==
    /\ cpc < Len(accounts)
    /\ ~calc_raised
    /\ LET account == accounts[cpc + 1]
           bal == AccountBalance(account, prices, stock_prices) IN
        /\ \E balance \in BalanceTexts(bal) :
            update_commands' =
                Append(update_commands, Command(account.id, balance, pl_api_key))
        /\ totals' = Append(totals, bal.total)
        /\ summaries' = Append(summaries, bal.summary)
        /\ IF account.name
             THEN cpc' = cpc + 1 /\ UNCHANGED calc_raised
             ELSE calc_raised' = TRUE /\ UNCHANGED cpc
    /\ UNCHANGED <<accounts, stock_prices, pl_api_key, returned>>
    /\ UNCHANGED outsideCalc

\* a list that is shared by the calls instead of being created by each
NewCommandList_shared(previous) == previous

\* line 331: update_commands = []
NewCommandList(previous) == <<>>

\* line 376: the list is returned; while fewer than MaxCalcCalls calls have
\* returned the function is called again with the same arguments (line 331)
calculate_return ==
    /\ cpc = Len(accounts)
    /\ ~calc_raised
    /\ Len(returned) < MaxCalcCalls
    /\ returned' = Append(returned, update_commands)
    /\ IF Len(returned') < MaxCalcCalls
         THEN /\ cpc' = 0
              /\ update_commands' = NewCommandList(update_commands)
              /\ totals' = <<>>
              /\ summaries' = <<>>
         ELSE UNCHANGED <<cpc, update_commands, totals, summaries>>
    /\ UNCHANGED <<accounts, stock_prices, pl_api_key, calc_raised>>
    /\ UNCHANGED outsideCalc

----------------------------------------------------------------------------
\* update_projectionlab and handle_mfa_code

\* lines 157-166: the code of the time window the call falls into, the one of
\* the call before or a later one (every window has a code of its own), or
\* None when the generation fails
get_totp_from_secret(w) ==
    {[code |-> None, window |-> w]}
    \cup {[code |-> Num(w2), window |-> w2] : w2 \in {w, w + 1}}

KeySep == <<"k", "e", "y", ":", " ", "'">>
Quote == <<"'">>
Marker == <<"*", "*", "*", "R", "E", "D", "A", "C", "T", "E", "D", "*", "*", "*">>

\* line 668: command.split("key: '")[1] raises IndexError without a "key: '"
RedactRaises(command) == Len(Split(command, KeySep)) < 2

\* line 668
Redact(command) ==
    Replace(command, Split(Split(command, KeySep)[2], Quote)[1], Marker)

\* a finally that is skipped on the failure paths
QuitsOnReturn_success_only(val) == val

\* lines 681-683: the finally clause runs whatever is returned
QuitsOnReturn(val) == TRUE

\* return val; past line 558 the finally clause calls driver.quit() on the way
\* out (lines 681-683). When driver.quit() raises, its exception replaces the
\* return value: update_projectionlab raises and returns nothing
Return(val, reason) ==
    IF browser = "running" /\ QuitsOnReturn(val)
        THEN /\ browser' = "quit"
             /\ quits' = quits + 1
             /\ why' = reason
             /\ \E quit_raises \in BOOLEAN :
                    IF quit_raises
                        THEN spc' = "raised" /\ UNCHANGED result
                        ELSE spc' = "returned" /\ result' = val
        ELSE /\ spc' = "returned"
             /\ result' = val
             /\ why' = reason
             /\ UNCHANGED <<browser, quits>>

Goto(p) == spc' = p /\ UNCHANGED <<result, why, browser, quits>>

\* lines 526-535
check_mfa_key ==
    /\ spc = "start"
    /\ IF pl_mfa = "masked" THEN Return(FALSE, "masked_mfa_key") ELSE Goto("browser")
    /\ UNCHANGED <<pl_mfa, mfaVars, elapsed, execVars>>
    /\ UNCHANGED outsideSess

\* lines 545-556
start_browser ==
    /\ spc = "browser"
    /\ \E ok \in BOOLEAN :
        IF ok
            THEN browser' = "running" /\ spc' = "signin" /\ UNCHANGED <<result, why, quits>>
            ELSE Return(FALSE, "browser_failed")
    /\ UNCHANGED <<pl_mfa, mfaVars, elapsed, execVars>>
    /\ UNCHANGED outsideSess

\* lines 559-568: the page is loaded, the sign-in-with-email button looked up
\* and clicked; every failure goes to the handler of line 678
click_sign_in_with_email ==
    /\ spc = "signin"
    /\ \E loaded, found, interaction_raises \in BOOLEAN :
        IF loaded /\ found /\ ~interaction_raises THEN Goto("email")
        ELSE Return(FALSE, IF loaded /\ ~found THEN "control_not_found" ELSE "exception")
    /\ UNCHANGED <<pl_mfa, mfaVars, elapsed, execVars>>
    /\ UNCHANGED outsideSess

\* lines 570-582: input-v-7, else input-v-6, else return False; clear() or
\* send_keys() raising on the input found goes to the handler of line 678
enter_email ==
    /\ spc = "email"
    /\ \E v7, v6, interaction_raises \in BOOLEAN :
        IF ~(v7 \/ v6) THEN Return(FALSE, "control_not_found")
        ELSE IF interaction_raises THEN Return(FALSE, "exception")
        ELSE Goto("password")
    /\ UNCHANGED <<pl_mfa, mfaVars, elapsed, execVars>>
    /\ UNCHANGED outsideSess

\* lines 584-596: input-v-9, else input-v-8, else return False; clear() or
\* send_keys() raising on the input found goes to the handler of line 678
enter_password ==
    /\ spc = "password"
    /\ \E v9, v8, interaction_raises \in BOOLEAN :
        IF ~(v9 \/ v8) THEN Return(FALSE, "control_not_found")
        ELSE IF interaction_raises THEN Return(FALSE, "exception")
        ELSE Goto("submit")
    /\ UNCHANGED <<pl_mfa, mfaVars, elapsed, execVars>>
    /\ UNCHANGED outsideSess

\* lines 598-601: the button is looked up and clicked; both failures go to
\* the handler of line 678
click_sign_in ==
    /\ spc = "submit"
    /\ \E found, interaction_raises \in BOOLEAN :
        IF found /\ ~interaction_raises
            THEN /\ Goto("totp")
                 /\ otp_group' \in {"absent", "present"}
            ELSE /\ Return(FALSE, IF found THEN "exception" ELSE "control_not_found")
                 /\ UNCHANGED otp_group
    /\ UNCHANGED <<pl_mfa, mfa_code, window, depth, submitted, typed, rejected, mfa_handled,
                   submit_click, fresh_code, elapsed, execVars>>
    /\ UNCHANGED outsideSess

\* lines 603-607
generate_totp ==
    /\ spc = "totp"
    /\ IF pl_mfa = "key"
         THEN \E c \in get_totp_from_secret(window) :
                mfa_code' = c.code /\ window' = c.window
         ELSE UNCHANGED <<mfa_code, window>>
    /\ Goto("detect")
    /\ UNCHANGED <<pl_mfa, depth, submitted, typed, rejected, mfa_handled, otp_group, submit_click,
                   fresh_code, elapsed, execVars>>
    /\ UNCHANGED outsideSess

\* lines 609-636: are the OTP fields there?
detect_mfa ==
    /\ spc = "detect"
    /\ IF pl_mfa # "key"
         THEN Goto("wait") /\ UNCHANGED <<mfa_code, window, depth, mfa_handled>>
         ELSE \E seen \in {otp_group, "error"} :
            IF seen = "present"
                THEN \E c \in (IF IsNone(mfa_code) THEN get_totp_from_secret(window)
                               ELSE {[code |-> mfa_code, window |-> window]}) :
                        /\ mfa_code' = c.code
                        /\ window' = c.window
                        /\ IF IsNone(c.code)
                             THEN Goto("wait") /\ UNCHANGED depth
                             \* line 629: the first call of handle_mfa_code
                             ELSE Goto("mfa_enter") /\ depth' = 1
                        /\ UNCHANGED mfa_handled
                ELSE /\ mfa_handled' = (seen = "absent")
                     /\ Goto("wait")
                     /\ UNCHANGED <<mfa_code, window, depth>>
    /\ UNCHANGED <<pl_mfa, submitted, typed, rejected, otp_group, submit_click, fresh_code, elapsed,
                   execVars>>
    /\ UNCHANGED outsideSess

\* the digits of a TOTP code
CodeLen == 6

\* the numbers of OTP input fields line 388 may find
FieldCounts == {0, 4, 6, 7}

\* lines 397-400: the digits typed, one for each field there is
DigitsTyped(nfields) == IF nfields < CodeLen THEN nfields ELSE CodeLen

\* lines 383-409: wait for the OTP fields, then type one digit into each of
\* the fields found, whatever their number (lines 390-391 only log it)
handle_mfa_code_enter ==
    /\ spc = "mfa_enter"
    /\ \E fields \in BOOLEAN :
        IF fields
            THEN /\ Goto("mfa_submit")
                 /\ \E nfields \in FieldCounts : typed' = DigitsTyped(nfields)
                 /\ UNCHANGED mfa_handled
            ELSE /\ Goto("wait")
                 /\ mfa_handled' = FALSE
                 /\ UNCHANGED typed
    /\ UNCHANGED <<pl_mfa, mfa_code, window, depth, submitted, rejected, otp_group, submit_click,
                   fresh_code, elapsed, execVars>>
    /\ UNCHANGED outsideSess

\* lines 411-448: the submit button by CSS, by XPath, or by a scan of all
\* buttons; when none is found nothing is clicked and the code goes on
handle_mfa_code_submit ==
    /\ spc = "mfa_submit"
    /\ \E css, xpath, js, raises \in BOOLEAN :
        IF raises
            THEN /\ Goto("wait")
                 /\ mfa_handled' = FALSE
                 /\ UNCHANGED <<submitted, submit_click>>
            ELSE /\ Goto("mfa_result")
                 /\ submitted' = IF css \/ xpath \/ js THEN Append(submitted, mfa_code)
                                 ELSE submitted
                 /\ submit_click' = IF css \/ xpath \/ js THEN "clicked" ELSE "not_found"
                 /\ UNCHANGED mfa_handled
    /\ UNCHANGED <<pl_mfa, mfa_code, window, depth, typed, rejected, otp_group, fresh_code, elapsed,
                   execVars>>
    /\ UNCHANGED outsideSess

\* line 466
RetriesWith(fresh_mfa_code, code) == ~IsNone(fresh_mfa_code) /\ fresh_mfa_code # code

\* an interpreter whose stack takes any number of calls
StackFull_never(d) == FALSE

\* line 471: with d calls of handle_mfa_code on the stack there is no room
\* for one more, and the call raises RecursionError
StackFull(d) == d >= RecursionLimit

\* lines 450-480: still on the MFA page?  If so, try again with a fresh code
\* that differs from the one just used
handle_mfa_code_result ==
    /\ spc = "mfa_result"
    /\ \E otp_fields_present \in BOOLEAN, raises \in BOOLEAN :
        IF raises
            \* find_elements raises at line 451, or the lookup of the error
            \* message at lines 455-457 does: line 482 returns False
            THEN /\ rejected' = IF otp_fields_present THEN rejected + 1 ELSE rejected
                 /\ mfa_handled' = FALSE
                 /\ Goto("wait")
                 /\ UNCHANGED <<mfa_code, window, depth, submit_click, fresh_code>>
        ELSE IF otp_fields_present
            THEN /\ rejected' = rejected + 1
                 /\ \E c \in get_totp_from_secret(window) :
                        /\ window' = c.window
                        /\ IF RetriesWith(c.code, mfa_code) /\ ~StackFull(depth)
                             \* line 471: handle_mfa_code calls itself
                             THEN /\ mfa_code' = c.code
                                  /\ depth' = depth + 1
                                  /\ submit_click' = "not_tried"
                                  /\ fresh_code' = <<>>
                                  /\ Goto("mfa_enter")
                                  /\ UNCHANGED mfa_handled
                             \* no other code (line 473), or the call of line
                             \* 471 raised RecursionError (handler of line 474):
                             \* line 477 returns False, and so does every call
                             \* below on the stack
                             ELSE /\ mfa_handled' = FALSE
                                  /\ fresh_code' = IF RetriesWith(c.code, mfa_code)
                                                    THEN fresh_code ELSE <<c.code>>
                                  /\ Goto("wait")
                                  /\ UNCHANGED <<mfa_code, depth, submit_click>>
            ELSE /\ mfa_handled' = TRUE
                 /\ Goto("wait")
                 /\ UNCHANGED <<mfa_code, window, depth, rejected, submit_click, fresh_code>>
    /\ UNCHANGED <<pl_mfa, submitted, typed, otp_group, elapsed, execVars>>
    /\ UNCHANGED outsideSess

\* seconds one round of the polling loop takes: the sleep, or a slow page
PollSecs == {1, 10}

\* a caller that goes on whatever wait_for_login_completion returned
LoginFailureReturns_never(ok) == FALSE

\* lines 641-654: if not login_successful ... return False
LoginFailureReturns(ok) == ~ok

\* lines 487-514 and 638-655: one round of the polling loop, or its timeout
wait_for_login_completion ==
    /\ spc = "wait"
    /\ IF elapsed < login_timeout
         THEN \E api_available \in BOOLEAN, d \in PollSecs :
                IF api_available
                    THEN Goto("api") /\ login_successful' = TRUE /\ elapsed' = 0
                    ELSE Goto("wait") /\ elapsed' = elapsed + d /\ UNCHANGED login_successful
         ELSE /\ IF LoginFailureReturns(FALSE)
                   THEN Return(FALSE, "readiness_timeout")
                   ELSE Goto("api")
              /\ UNCHANGED <<elapsed, login_successful>>
    /\ UNCHANGED <<pl_mfa, mfaVars, ei, executed, execlog>>
    /\ UNCHANGED outsideSess

\* lines 659-663
wait_for_api ==
    /\ spc = "api"
    /\ \E api_available \in BOOLEAN :
        IF api_available THEN Goto("exec") ELSE Return(FALSE, "exception")
    /\ UNCHANGED <<pl_mfa, mfaVars, elapsed, execVars>>
    /\ UNCHANGED outsideSess

\* a loop that goes on with the next command after a failure
AbortsOnFailure_never(ok) == FALSE

\* lines 670 and 678-680: a command that raises ends the loop
AbortsOnFailure(ok) == ~ok

\* lines 665-676: the next command is logged and invoked, or the loop is
\* over and True is returned
execute_command ==
    /\ spc = "exec"
    /\ IF ei <= Len(update_commands)
         THEN LET command == update_commands[ei] IN
              IF RedactRaises(command)
                THEN Return(FALSE, "exception") /\ UNCHANGED execVars
                ELSE /\ execlog' = Append(execlog, Redact(command))
                     /\ \E ok \in BOOLEAN :
                         /\ executed' = Append(executed, [idx |-> ei, ok |-> ok])
                         /\ UNCHANGED login_successful
                         /\ IF AbortsOnFailure(ok)
                              THEN Return(FALSE, "command_failed") /\ UNCHANGED ei
                              ELSE Goto("exec") /\ ei' = ei + 1
         ELSE Return(TRUE, "done") /\ UNCHANGED execVars
    /\ UNCHANGED <<pl_mfa, mfaVars, elapsed>>
    /\ UNCHANGED outsideSess

\* lines 329-376: the lists of commands the call can return, one text of
\* BalanceTexts for each account
Commands(accs, crypto_prices, sprices, key) ==
    LET bal(k) == AccountBalance(accs[k], crypto_prices, sprices)
        texts == UNION {BalanceTexts(bal(k)) : k \in 1..Len(accs)}
        choices == {b \in [1..Len(accs) -> texts] :
                        \A k \in 1..Len(accs) : b[k] \in BalanceTexts(bal(k))}
    IN  {[k \in 1..Len(accs) |-> Command(accs[k].id, b[k], key)] : b \in choices}

\* update_projectionlab has not been called
SessAtRest ==
    /\ spc = "start"
    /\ browser = "none"
    /\ quits = 0
    /\ mfa_code = None
    /\ window = 1
    /\ depth = 0
    /\ submitted = <<>>
    /\ typed = 0
    /\ rejected = 0
    /\ mfa_handled = FALSE
    /\ otp_group = "absent"
    /\ submit_click = "not_tried"
    /\ fresh_code = <<>>
    /\ elapsed = 0
    /\ login_successful = FALSE
    /\ ei = 1
    /\ executed = <<>>
    /\ execlog = <<>>
    /\ result = FALSE
    /\ why = "running"

\* lines 517-524: the call, with the commands of calculate_account_balances
InitSession ==
    /\ accounts \in {<<>>, <<AccountA>>, <<AccountB, AccountD>>}
    /\ stock_prices = [i \in {"AAPL"} |-> 1500]
    /\ prices = [i \in {"bitcoin"} |-> Num(500000)]
    /\ pl_api_key \in ApiKeys
    /\ cpc = Len(accounts)
    /\ calc_raised = FALSE
    /\ update_commands \in Commands(accounts, prices, stock_prices, pl_api_key)
    /\ totals = [k \in 1..Len(accounts) |->
                    AccountBalance(accounts[k], prices, stock_prices).total]
    /\ summaries = [k \in 1..Len(accounts) |->
                    AccountBalance(accounts[k], prices, stock_prices).summary]
    /\ returned = <<>>
    /\ pl_mfa \in {"none", "key", "masked"}
    /\ SessAtRest

----------------------------------------------------------------------------
\* obtain_lock and release_lock, one file system call at a time

\* the runs of the script that share the lock file
Procs == {1, 2}

NoLockFile == [exists |-> FALSE, mtime |-> 0, pid |-> 0]
LockFile(t, p) == [exists |-> TRUE, mtime |-> t, pid |-> p]

\* line 113
IsStale(current_time, file_time) == current_time - file_time > stale_after

\* the process leaves main with this status
Exit(p, code) ==
    /\ lpc' = [lpc EXCEPT ![p] = "exited"]
    /\ exit_code' = [exit_code EXCEPT ![p] = code]

\* obtain_lock returns; main (lines 712-715) exits 0 on False and enters
\* the try block on True
ObtainReturns(p, val) ==
    /\ obtained' = [obtained EXCEPT ![p] = val]
    /\ IF val
         THEN lpc' = [lpc EXCEPT ![p] = "held"] /\ UNCHANGED exit_code
         ELSE Exit(p, 0)

\* line 108: os.path.exists
obtain_lock_exists(p) ==
    /\ lpc[p] = "obtain"
    /\ lpc' = [lpc EXCEPT ![p] = IF lockfile.exists THEN "getmtime" ELSE "create"]
    /\ UNCHANGED <<lockfile, lock_file_time, obtained, releases, lock_error, exit_code, now>>
    /\ UNCHANGED outsideLock

\* lines 110-123: os.path.getmtime, which raises when the file has gone (the
\* exception leaves main through line 768); then the staleness test
obtain_lock_getmtime(p) ==
    /\ lpc[p] = "getmtime"
    /\ IF ~lockfile.exists
         THEN Exit(p, 1) /\ UNCHANGED <<obtained, lock_file_time>>
         ELSE /\ lock_file_time' = [lock_file_time EXCEPT ![p] = lockfile.mtime]
              /\ IF IsStale(now, lockfile.mtime)
                   THEN lpc' = [lpc EXCEPT ![p] = "remove"] /\ UNCHANGED <<obtained, exit_code>>
                   ELSE ObtainReturns(p, FALSE)
    /\ UNCHANGED <<lockfile, releases, lock_error, now>>
    /\ UNCHANGED outsideLock

\* lines 115-119: os.remove of the stale file
obtain_lock_remove(p) ==
    /\ lpc[p] = "remove"
    /\ \E removable \in BOOLEAN :
        IF lockfile.exists /\ removable
            THEN /\ lockfile' = NoLockFile
                 /\ lpc' = [lpc EXCEPT ![p] = "create"]
                 /\ UNCHANGED <<obtained, exit_code, lock_error>>
            \* os.remove raises: the file has gone, or it cannot be removed
            ELSE /\ ObtainReturns(p, FALSE)
                 /\ lock_error' = [lock_error EXCEPT ![p] = TRUE]
                 /\ UNCHANGED lockfile
    /\ UNCHANGED <<lock_file_time, releases, now>>
    /\ UNCHANGED outsideLock

\* lines 126-133: open(LOCK_FILE_PATH, 'w') creates or truncates the file,
\* then the pid is written. When the write raises after open has succeeded,
\* an empty file with a new mtime is left (pid 0: no run's pid is in it)
obtain_lock_create(p) ==
    /\ lpc[p] = "create"
    /\ \E outcome_of_write \in {"ok", "open_raises", "write_raises"} :
        IF outcome_of_write = "ok"
            THEN /\ lockfile' = LockFile(now, p)
                 /\ ObtainReturns(p, TRUE)
                 /\ UNCHANGED lock_error
            ELSE /\ lockfile' = IF outcome_of_write = "write_raises" THEN LockFile(now, 0)
                                ELSE lockfile
                 /\ ObtainReturns(p, FALSE)
                 /\ lock_error' = [lock_error EXCEPT ![p] = TRUE]
    /\ UNCHANGED <<lock_file_time, releases, now>>
    /\ UNCHANGED outsideLock

\* line 139: os.path.exists
release_lock_exists(p) ==
    /\ lpc[p] = "release"
    /\ releases' = [releases EXCEPT ![p] = @ + 1]
    /\ IF lockfile.exists
         THEN lpc' = [lpc EXCEPT ![p] = "release_remove"] /\ UNCHANGED exit_code
         ELSE lpc' = [lpc EXCEPT ![p] = "exited"] /\ UNCHANGED exit_code
    /\ UNCHANGED <<lockfile, lock_file_time, obtained, lock_error, now>>
    /\ UNCHANGED outsideLock

\* lines 140-143: os.remove, whoever wrote the file; when it raises (the file
\* has gone, or it cannot be removed) the error is logged and the file is as
\* it was
release_lock_remove(p) ==
    /\ lpc[p] = "release_remove"
    /\ \E removable \in BOOLEAN :
        lockfile' = IF lockfile.exists /\ removable THEN NoLockFile ELSE lockfile
    /\ lpc' = [lpc EXCEPT ![p] = "exited"]
    /\ UNCHANGED <<lock_file_time, obtained, releases, lock_error, exit_code, now>>
    /\ UNCHANGED outsideLock

\* the ids of the accounts of the contending runs
BodyIds == {"bitcoin"}

\* the mappings get_crypto_prices may give a contending run
BodyPrices == {[i \in BodyIds |-> p] : p \in {Num(500000), None}}

\* lines 715-729 and 252-277 for a contending run: the call of
\* get_cached_crypto_prices (line 729) reads the cache file. A record that
\* serves the ids is returned; otherwise the run goes on to
\* get_crypto_prices (line 281), and the other runs take their steps while
\* it waits for the provider
main_body_read(p) ==
    /\ lpc[p] = "held"
    /\ lpc' = [lpc EXCEPT ![p] = IF CacheServes(cache, BodyIds, now) THEN "body" ELSE "fetch"]
    /\ UNCHANGED <<lockfile, lock_file_time, obtained, releases, lock_error, exit_code, now>>
    /\ UNCHANGED outsideLock

\* lines 281-300 for a contending run: get_crypto_prices has returned. With
\* no prices, or when the file cannot be opened, the cache file stays as it
\* is, whoever wrote it in the meantime; otherwise it is replaced by a record
\* of this time, or left unreadable when the write breaks off. The run is
\* still in the body, with the stock prices, the balances and the browser
\* session before it. The prices, commands and browser of such a run are its
\* own: the variables of these parts hold those of the run that is followed
\* step by step
main_body_write(p) ==
    /\ lpc[p] = "fetch"
    /\ lpc' = [lpc EXCEPT ![p] = "body"]
    /\ cache' \in {cache, CacheUnreadable} \cup {CacheRecord(now, m) : m \in BodyPrices}
    /\ UNCHANGED <<lockfile, lock_file_time, obtained, releases, lock_error, exit_code, now>>
    /\ UNCHANGED <<fpc, fids, attempt, nreq, sleeps, resps, prices, got, last, ncalls,
                   calcVars, sessVars, mainVars>>

\* lines 715-767 for a contending run: the try block ends. Before the prices
\* are there it ends by sys.exit(1) (line 720) or an exception, after that
\* normally (status 0), by sys.exit(1) (lines 733, 761) or by an exception
main_body(p) ==
    /\ lpc[p] \in {"held", "body"}
    /\ \E code \in (IF lpc[p] = "held" THEN {1} ELSE {0, 1}) :
        /\ exit_code' = [exit_code EXCEPT ![p] = code]
        /\ lpc' = [lpc EXCEPT ![p] = "release"]
    /\ UNCHANGED <<lockfile, lock_file_time, obtained, releases, lock_error, now>>
    /\ UNCHANGED outsideLock

\* time passes
LockAdvances == {stale_after, stale_after + 1}

LockTick ==
    /\ \E d \in LockAdvances :
        /\ now + d <= MaxLockTime
        /\ now' = now + d
    /\ UNCHANGED lockVars
    /\ UNCHANGED outsideLock

\* no run has reached obtain_lock
LockAtRest ==
    /\ lockfile = NoLockFile
    /\ lpc = [p \in Procs |-> "idle"]
    /\ lock_file_time = [p \in Procs |-> 0]
    /\ obtained = [p \in Procs |-> FALSE]
    /\ releases = [p \in Procs |-> 0]
    /\ lock_error = [p \in Procs |-> FALSE]
    /\ exit_code = [p \in Procs |-> 0]

\* main has not been started
MainAtRest ==
    /\ mpc = "begin"
    /\ id_list = <<>>
    /\ env = [username |-> TRUE, password |-> TRUE, validate_only |-> FALSE, update |-> TRUE]
    /\ outcome = "running"

----------------------------------------------------------------------------
\* main, for the run whose work is followed step by step

Self == 1

\* line 98: the three required settings are there
ConfigValid(e, key) == e.username /\ e.password /\ key # <<>>

\* a function that returns the ids found and knows no defaults
get_crypto_ids_no_default(accs) ==
    UNION {{accs[k].crypto[j].id : j \in 1..Len(accs[k].crypto)} : k \in 1..Len(accs)}

\* lines 229-240: the ids of the crypto holdings, or the defaults
get_crypto_ids_from_accounts(accs) ==
    LET crypto_ids == UNION {{accs[k].crypto[j].id : j \in 1..Len(accs[k].crypto)} :
                                k \in 1..Len(accs)} IN
    IF crypto_ids = {} THEN DEFAULT_CRYPTO_IDS ELSE crypto_ids

\* lines 736-740
StockSymbols(accs) ==
    UNION {{accs[k].stock[j].symbol : j \in 1..Len(accs[k].stock)} : k \in 1..Len(accs)}

\* the run is in the try block of line 715, at position pos
InBody(pos) == lpc[Self] = "held" /\ mpc = pos

\* a try block whose finally clause is skipped when sys.exit is called
RunsFinally_not_on_sys_exit(o) == o \in {"success", "skipped", "exception"}

\* lines 766-767: the finally clause runs however the try block ends
RunsFinally(o) == TRUE

\* the try block ends: release_lock is next, then the process exits
Finish(code, o) ==
    /\ mpc' = "finally"
    /\ outcome' = o
    /\ exit_code' = [exit_code EXCEPT ![Self] = code]
    /\ lpc' = [lpc EXCEPT ![Self] = IF RunsFinally(o) THEN "release" ELSE "exited"]

\* a run that ignores the validation switch
ValidateReturns_never(e) == FALSE

\* lines 707-709: if VALIDATE_ONLY ... return
ValidateReturns(e) == e.validate_only

\* lines 693-713: configuration, accounts, validation mode, then obtain_lock
main_start ==
    /\ lpc[Self] = "idle"
    /\ mpc = "begin"
    /\ mpc' = "try"
    /\ IF ~ConfigValid(env, pl_api_key)
         THEN Exit(Self, 1) /\ outcome' = "config_missing"
         ELSE IF ValidateReturns(env)
                THEN Exit(Self, 0) /\ outcome' = "validate_only"
                ELSE /\ lpc' = [lpc EXCEPT ![Self] = "obtain"]
                     /\ UNCHANGED <<exit_code, outcome>>
    /\ UNCHANGED <<lockfile, lock_file_time, obtained, releases, lock_error, env, id_list>>
    /\ UNCHANGED <<fetchVars, calcVars, sessVars>>

\* lines 717-720
main_api_key ==
    /\ InBody("try")
    /\ IF pl_api_key = <<>>
         THEN Finish(1, "missing_api_key")
         ELSE mpc' = "ids" /\ UNCHANGED <<outcome, exit_code, lpc>>
    /\ UNCHANGED <<lockfile, lock_file_time, obtained, releases, lock_error, env, id_list>>
    /\ UNCHANGED <<fetchVars, calcVars, sessVars>>

\* the orders in which a set can be listed
Orders(S) ==
    {q \in [1..Cardinality(S) -> S] : \A a, b \in 1..Cardinality(S) : q[a] = q[b] => a = b}

\* line 723, with line 243: the set is returned as a list, in the order in
\* which the set happens to be iterated
main_crypto_ids ==
    /\ InBody("ids")
    /\ id_list' \in Orders(get_crypto_ids_from_accounts(accounts))
    /\ mpc' = "prices"
    /\ UNCHANGED <<lockVars, env, outcome>>
    /\ UNCHANGED <<fetchVars, calcVars, sessVars>>

\* a test that also gives up when an id has no price
PricesMissing_any_absent(crypto_prices) ==
    crypto_prices = EmptyDict \/ \E i \in DOMAIN crypto_prices : IsNone(crypto_prices[i])

\* line 729: if not crypto_prices
PricesMissing(crypto_prices) == crypto_prices = EmptyDict

\* lines 729-733: get_cached_crypto_prices has returned
main_check_prices ==
    /\ InBody("prices")
    /\ fpc = "idle"
    /\ ncalls = 1
    /\ IF PricesMissing(prices)
         THEN Finish(1, "no_prices")
         ELSE mpc' = "stocks" /\ UNCHANGED <<outcome, exit_code, lpc>>
    /\ UNCHANGED <<lockfile, lock_file_time, obtained, releases, lock_error, env, id_list>>
    /\ UNCHANGED <<fetchVars, calcVars, sessVars>>

\* lines 736-745: get_stock_prices is called when there are symbols
main_stock_prices ==
    /\ InBody("stocks")
    /\ stock_prices' \in IF StockSymbols(accounts) = {} THEN {EmptyDict} ELSE StockPriceMaps
    /\ mpc' = "calc"
    /\ UNCHANGED <<accounts, pl_api_key, cpc, calc_raised, update_commands, totals, summaries,
                   returned>>
    /\ UNCHANGED <<lockVars, env, id_list, outcome>>
    /\ UNCHANGED <<fetchVars, sessVars>>

\* lines 749-763: calculate_account_balances has returned or raised
main_should_update ==
    /\ InBody("calc")
    /\ calc_raised \/ cpc = Len(accounts)
    /\ IF calc_raised
         THEN Finish(1, "exception")
         ELSE IF env.update
                THEN mpc' = "update" /\ UNCHANGED <<outcome, exit_code, lpc>>
                ELSE Finish(0, "skipped")
    /\ UNCHANGED <<lockfile, lock_file_time, obtained, releases, lock_error, env, id_list>>
    /\ UNCHANGED <<fetchVars, calcVars, sessVars>>

\* lines 756-765: update_projectionlab has returned; when it has raised, the
\* exception goes through the finally clause to line 768
main_update_result ==
    /\ InBody("update")
    /\ spc \in {"returned", "raised"}
    /\ IF spc = "raised" THEN Finish(1, "exception")
       ELSE IF result THEN Finish(0, "success") ELSE Finish(1, "update_failed")
    /\ UNCHANGED <<lockfile, lock_file_time, obtained, releases, lock_error, env, id_list>>
    /\ UNCHANGED <<fetchVars, calcVars, sessVars>>

\* the environment of the run
Envs == [username : BOOLEAN, password : BOOLEAN, validate_only : BOOLEAN, update : BOOLEAN]

\* accounts.yaml as main finds it
MainAccountLists == {<<AccountA>>, <<AccountB, AccountD>>, <<AccountA, Unnamed(AccountD)>>}

----------------------------------------------------------------------------
\* Specifications

\* get_crypto_prices under every provider outcome
InitFetch ==
    /\ FetchAtRest
    /\ accounts = <<>>
    /\ stock_prices = EmptyDict
    /\ pl_api_key = <<>>
    /\ CalcAtRest
    /\ pl_mfa = "none"
    /\ SessAtRest
    /\ LockAtRest
    /\ MainAtRest

NextFetch ==
    \/ get_cached_crypto_prices(MaxFetchCalls, IdLists)
    \/ get_crypto_prices(Outcomes)
    \/ update_cache

SpecFetch == InitFetch /\ [][NextFetch]_vars

\* get_cached_crypto_prices called again and again as time passes
NextCache ==
    \/ Tick
    \/ get_cached_crypto_prices(MaxCalls, IdLists)
    \/ get_crypto_prices(CacheOutcomes)
    \/ update_cache

SpecCache == InitFetch /\ [][NextCache]_vars

\* calculate_account_balances on the accounts and prices of the model
InitCalcSpec ==
    /\ InitCalc
    /\ cache = CacheAbsent
    /\ now = 0
    /\ fpc = "idle"
    /\ fids = {}
    /\ attempt = 0
    /\ nreq = 0
    /\ sleeps = <<>>
    /\ resps = <<>>
    /\ got = NoBody
    /\ last = NoCall
    /\ ncalls = 0
    /\ pl_mfa = "none"
    /\ SessAtRest
    /\ LockAtRest
    /\ MainAtRest

NextCalc ==
    \/ calculate_account_balances
    \/ calculate_return

SpecCalc == InitCalcSpec /\ [][NextCalc]_vars

\* one call of update_projectionlab against every behaviour of the page
InitSessionSpec ==
    /\ InitSession
    /\ cache = CacheAbsent
    /\ now = 0
    /\ fpc = "idle"
    /\ fids = {}
    /\ attempt = 0
    /\ nreq = 0
    /\ sleeps = <<>>
    /\ resps = <<>>
    /\ got = NoBody
    /\ last = NoCall
    /\ ncalls = 0
    /\ LockAtRest
    /\ MainAtRest

NextSession ==
    \/ check_mfa_key
    \/ start_browser
    \/ click_sign_in_with_email
    \/ enter_email
    \/ enter_password
    \/ click_sign_in
    \/ generate_totp
    \/ detect_mfa
    \/ handle_mfa_code_enter
    \/ handle_mfa_code_submit
    \/ handle_mfa_code_result
    \/ wait_for_login_completion
    \/ wait_for_api
    \/ execute_command

SpecSession == InitSessionSpec /\ [][NextSession]_vars

\* the steps of update_projectionlab before the command loop
LoginSteps ==
    \/ check_mfa_key
    \/ start_browser
    \/ click_sign_in_with_email
    \/ enter_email
    \/ enter_password
    \/ click_sign_in
    \/ generate_totp
    \/ detect_mfa
    \/ handle_mfa_code_enter
    \/ handle_mfa_code_submit
    \/ handle_mfa_code_result
    \/ wait_for_login_completion
    \/ wait_for_api

\* the process runs on: a step that can be taken is taken.  For the command
\* loop weak fairness is written out, a step of the loop being possible
\* exactly when spc = "exec"
SessionFairness ==
    /\ WF_vars(LoginSteps)
    /\ ([]<>(spc # "exec") \/ []<><<execute_command>>_vars)

\* update_projectionlab in a process that runs on
SpecSessionFair == InitSessionSpec /\ [][NextSession]_vars /\ SessionFairness

\* several runs of the script contend for the lock file
InitLock ==
    /\ FetchAtRest
    /\ accounts = <<>>
    /\ stock_prices = EmptyDict
    /\ pl_api_key = <<>>
    /\ CalcAtRest
    /\ pl_mfa = "none"
    /\ SessAtRest
    /\ lockfile \in {NoLockFile, LockFile(0, 0)}
    /\ lpc = [p \in Procs |-> "obtain"]
    /\ lock_file_time = [p \in Procs |-> 0]
    /\ obtained = [p \in Procs |-> FALSE]
    /\ releases = [p \in Procs |-> 0]
    /\ lock_error = [p \in Procs |-> FALSE]
    /\ exit_code = [p \in Procs |-> 0]
    /\ MainAtRest

NextLock ==
    \/ LockTick
    \/ \E p \in Procs : obtain_lock_exists(p)
    \/ \E p \in Procs : obtain_lock_getmtime(p)
    \/ \E p \in Procs : obtain_lock_remove(p)
    \/ \E p \in Procs : obtain_lock_create(p)
    \/ \E p \in Procs : main_body_read(p)
    \/ \E p \in Procs : main_body_write(p)
    \/ \E p \in Procs : main_body(p)
    \/ \E p \in Procs : release_lock_exists(p)
    \/ \E p \in Procs : release_lock_remove(p)

SpecLock == InitLock /\ [][NextLock]_vars

\* one run of main from the start to the exit of the process
InitMain ==
    /\ now = stale_after + 2
    /\ cache \in {CacheAbsent, CacheRecord(now - 10, [i \in {"bitcoin"} |-> Num(500000)])}
    /\ fpc = "idle"
    /\ fids = {}
    /\ attempt = 0
    /\ nreq = 0
    /\ sleeps = <<>>
    /\ resps = <<>>
    /\ prices = EmptyDict
    /\ got = NoBody
    /\ last = NoCall
    /\ ncalls = 0
    /\ accounts \in MainAccountLists
    /\ stock_prices = EmptyDict
    /\ pl_api_key \in {<<"k", "9">>, <<>>}
    /\ CalcAtRest
    /\ lockfile \in {NoLockFile, LockFile(1, 0), LockFile(2, 0)}
    \* the login with MFA is followed in the run that finds its prices in the
    \* cache and no lock file, the login without MFA in every run
    /\ pl_mfa \in IF cache.state = "record" /\ ~lockfile.exists THEN {"none", "key"}
                  ELSE {"none"}
    /\ SessAtRest
    /\ lpc = [p \in Procs |-> "idle"]
    /\ lock_file_time = [p \in Procs |-> 0]
    /\ obtained = [p \in Procs |-> FALSE]
    /\ releases = [p \in Procs |-> 0]
    /\ lock_error = [p \in Procs |-> FALSE]
    /\ exit_code = [p \in Procs |-> 0]
    /\ mpc = "begin"
    /\ id_list = <<>>
    /\ env \in Envs
    /\ outcome = "running"

NextMain ==
    \/ main_start
    \/ obtain_lock_exists(Self)
    \/ obtain_lock_getmtime(Self)
    \/ obtain_lock_remove(Self)
    \/ obtain_lock_create(Self)
    \/ main_api_key
    \/ main_crypto_ids
    \/ InBody("prices") /\ get_cached_crypto_prices(1, {Range(id_list)})
    \/ InBody("prices") /\ get_crypto_prices(CacheOutcomes)
    \/ InBody("prices") /\ update_cache
    \/ main_check_prices
    \/ main_stock_prices
    \/ InBody("calc") /\ calculate_account_balances
    \/ main_should_update
    \/ InBody("update") /\ check_mfa_key
    \/ InBody("update") /\ start_browser
    \/ InBody("update") /\ click_sign_in_with_email
    \/ InBody("update") /\ enter_email
    \/ InBody("update") /\ enter_password
    \/ InBody("update") /\ click_sign_in
    \/ InBody("update") /\ generate_totp
    \/ InBody("update") /\ detect_mfa
    \/ InBody("update") /\ handle_mfa_code_enter
    \/ InBody("update") /\ handle_mfa_code_submit
    \/ InBody("update") /\ handle_mfa_code_result
    \/ InBody("update") /\ wait_for_login_completion
    \/ InBody("update") /\ wait_for_api
    \/ InBody("update") /\ execute_command
    \/ main_update_result
    \/ release_lock_exists(Self)
    \/ release_lock_remove(Self)

SpecMain == InitMain /\ [][NextMain]_vars

\* get_crypto_ids_from_accounts on its own: the run is at line 723, with the
\* lock held, and the accounts file is any list of the accounts below
AccountE == Account(<<"e", "5">>, <<Holding("solana", 30), Holding("ethereum", 20)>>, <<>>)

IdAccounts == {AccountA, AccountB, AccountC, AccountD, AccountE}

IdAccountLists == UNION {[1..n -> IdAccounts] : n \in 0..MaxAccounts}

InitIds ==
    /\ FetchAtRest
    /\ accounts \in IdAccountLists
    /\ stock_prices = EmptyDict
    /\ pl_api_key = <<"k", "9">>
    /\ CalcAtRest
    /\ pl_mfa = "none"
    /\ SessAtRest
    /\ lockfile = LockFile(0, Self)
    /\ lpc = [p \in Procs |-> IF p = Self THEN "held" ELSE "idle"]
    /\ lock_file_time = [p \in Procs |-> 0]
    /\ obtained = [p \in Procs |-> p = Self]
    /\ releases = [p \in Procs |-> 0]
    /\ lock_error = [p \in Procs |-> FALSE]
    /\ exit_code = [p \in Procs |-> 0]
    /\ mpc = "ids"
    /\ id_list = <<>>
    /\ env = [username |-> TRUE, password |-> TRUE, validate_only |-> FALSE, update |-> TRUE]
    /\ outcome = "running"

NextIds == main_crypto_ids

SpecIds == InitIds /\ [][NextIds]_vars

----------------------------------------------------------------------------
\* Properties of get_crypto_ids_from_accounts

NoDuplicates(q) == \A a, b \in 1..Len(q) : q[a] = q[b] => a = b

\* the keys of the crypto holdings of all the accounts
HoldingKeys(accs) == {h.id : h \in UNION {Range(accs[k].crypto) : k \in DOMAIN accs}}

\* C18: the list returned by get_crypto_ids_from_accounts holds each id at
\* most once, and its ids are the union of the accounts' crypto holding keys,
\* or bitcoin and ethereum when no account holds crypto.
C18_Deduplication ==
    mpc = "prices" =>
        /\ NoDuplicates(id_list)
        /\ Range(id_list) = IF HoldingKeys(accounts) = {}
                               THEN {"bitcoin", "ethereum"}
                               ELSE HoldingKeys(accounts)

\* two accounts hold bitcoin, and the list names it once
C18_Witness ==
    /\ mpc = "prices"
    /\ accounts = <<AccountA, AccountC, AccountD>>
    /\ Len(id_list) = 2

----------------------------------------------------------------------------
\* Properties of the price fetch and the cache

\* a step that calls get_cached_crypto_prices
IsCacheCall == fpc = "idle" /\ (fpc' = "fetch" \/ ncalls' # ncalls)

\* C3 (as claimed): a call is served from the cache, with no provider
\* request, if and only if the record is younger than the ttl and holds
\* every requested id; otherwise a fresh fetch of the requested ids starts.
C3_ServedIffFreshAndSubset ==
    [][IsCacheCall =>
        /\ (fpc' = "idle") <=>
                (/\ cache.state = "record"
                 /\ now - cache.timestamp < cache_duration
                 /\ fids' \subseteq DOMAIN cache.prices)
        /\ fpc' = "idle" => prices' = cache.prices /\ last'.requests = 0
        /\ fpc' = "fetch" => nreq' = 0 /\ attempt' = 0]_vars

\* the cache file holds a record in which an id of the set ids is stored as None
StoredAbsent(ids) ==
    /\ cache.state = "record"
    /\ \E i \in ids \cap DOMAIN cache.prices : IsNone(cache.prices[i])

\* C27: a call that finds a record in which a requested id is stored as None
\* does not return that record, whatever its age and keys: it leaves the file
\* as it is and starts a fresh fetch, which makes at least one provider
\* request; and the mapping a hit has returned holds a price for every
\* requested id.
C27_AbsentNeverServed ==
    /\ [][(IsCacheCall /\ StoredAbsent(fids')) =>
            /\ fpc' = "fetch"
            /\ ncalls' = ncalls
            /\ ~last'.hit
            /\ prices' = EmptyDict
            /\ nreq' = 0
            /\ cache' = cache]_vars
    /\ [][(fpc = "fetch" /\ nreq = 0) => (fpc' = "fetch" \/ nreq' = 1)]_vars
    /\ []((fpc = "idle" /\ last.hit) =>
            /\ fids \subseteq DOMAIN prices
            /\ \A i \in fids : ~IsNone(prices[i]))

\* a record that stores bitcoin as None, younger than the ttl, was found by a
\* call for bitcoin, and the provider has answered the fresh request
C27_Witness ==
    /\ StoredAbsent(fids)
    /\ fids = {"bitcoin"}
    /\ DOMAIN cache.prices = {"bitcoin"}
    /\ now - cache.timestamp < cache_duration
    /\ ncalls = 1
    /\ fpc = "write"
    /\ nreq = 1
    /\ got.ok
    /\ ~IsNone(prices["bitcoin"])

\* C4: a successful cache write stores exactly the mapping just fetched,
\* whose keys are the requested ids, with the current time; nothing of the
\* prior record survives, and a later hit returns the stored mapping only.
C4_WriteReplacesRecord ==
    [][/\ (fpc = "write" /\ last'.wrote) =>
            /\ cache' = [state |-> "record", timestamp |-> now', prices |-> prices]
            /\ DOMAIN cache'.prices = fids
            /\ \A i \in last'.replaced \ fids : i \notin DOMAIN cache'.prices
       /\ (IsCacheCall /\ fpc' = "idle") => prices' = cache.prices]_vars

\* a record for {bitcoin} has replaced a record that held ethereum
C4_Witness ==
    /\ fpc = "idle"
    /\ last.wrote
    /\ "ethereum" \in last.replaced
    /\ cache.state = "record"
    /\ DOMAIN cache.prices = {"bitcoin"}

\* C10: get_crypto_prices issues at most 3 requests; it returns the mapping
\* of the first successful response, having passed over none, and the empty
\* mapping when no attempt succeeded.
C10_BoundedAttempts ==
    /\ nreq <= max_retries
    /\ fpc = "fetch" => ~got.ok
    /\ fpc = "write" =>
        IF got.ok
            THEN prices = [i \in fids |->
                            IF i \in DOMAIN got.body /\ got.body[i].usd
                                THEN got.body[i].val ELSE None]
            ELSE prices = EmptyDict /\ nreq = max_retries

\* the third request succeeded after two failures
C10_Witness ==
    /\ fpc = "write"
    /\ nreq = max_retries
    /\ got.ok
    /\ prices # EmptyDict

----------------------------------------------------------------------------
\* Properties of the balance calculation

\* the crypto holdings of an account whose price is present, with their values
RECURSIVE PricedItems(_, _)
PricedItems(crypto_assets, crypto_prices) ==
    IF crypto_assets = <<>> THEN <<>>
    ELSE LET h == Head(crypto_assets) IN
         (IF h.id \in DOMAIN crypto_prices /\ crypto_prices[h.id] # None
            THEN <<[asset |-> h.id, amount |-> h.amount,
                    value |-> h.amount * crypto_prices[h.id][1]]>>
            ELSE <<>>)
         \o PricedItems(Tail(crypto_assets), crypto_prices)

\* the stock holdings of an account whose price is known, with their values
RECURSIVE PricedShares(_, _)
PricedShares(stock_assets, sprices) ==
    IF stock_assets = <<>> THEN <<>>
    ELSE LET h == Head(stock_assets) IN
         (IF h.symbol \in DOMAIN sprices
            THEN <<[asset |-> h.symbol, amount |-> h.shares, value |-> h.shares * sprices[h.symbol]]>>
            ELSE <<>>)
         \o PricedShares(Tail(stock_assets), sprices)

RECURSIVE SumValues(_)
SumValues(items) == IF items = <<>> THEN 0 ELSE Head(items).value + SumValues(Tail(items))

RECURSIVE KeepPositive(_)
KeepPositive(items) ==
    IF items = <<>> THEN <<>>
    ELSE (IF Head(items).value > 0 THEN <<Head(items)>> ELSE <<>>) \o KeepPositive(Tail(items))

Processed == 1..Len(totals)

\* C2 (as claimed): a crypto line item whose value is <= 0 is left out of
\* the summary, yet its value is added to the account's total.
C2_NonPositiveStillCounted ==
    \A k \in Processed :
        LET items == PricedItems(accounts[k].crypto, prices)
            shares == PricedShares(accounts[k].stock, stock_prices) IN
        /\ summaries[k] = KeepPositive(items) \o shares
        /\ totals[k] = SumValues(items) + SumValues(shares)

\* C19: every call of calculate_account_balances that returns gives one
\* command per account, the i-th command carrying the id of the i-th account,
\* and calls with the same accounts, prices and key return the same list.
C19_OrderAndDeterminism ==
    \A c \in 1..Len(returned) :
        /\ Len(returned[c]) = Len(accounts)
        /\ \A i \in 1..Len(accounts) :
                StartsWith(returned[c][i], CmdHead \o accounts[i].id \o CmdBalance)
        /\ returned[c] = returned[1]

\* two calls have returned for two accounts with different ids
C19_Witness ==
    /\ Len(returned) = 2
    /\ Len(accounts) = 2
    /\ accounts[1].id # accounts[2].id
    /\ Len(returned[2]) = 2

\* every holding of the account has a positive quantity and a known positive price
AllPositiveAndPriced(account) ==
    /\ \A j \in 1..Len(account.crypto) :
            LET h == account.crypto[j] IN
            /\ h.amount > 0
            /\ h.id \in DOMAIN prices
            /\ prices[h.id] # None
            /\ prices[h.id][1] > 0
    /\ \A j \in 1..Len(account.stock) :
            LET h == account.stock[j] IN
            /\ h.shares > 0
            /\ h.symbol \in DOMAIN stock_prices
            /\ stock_prices[h.symbol] > 0

\* quantity x price over the crypto holdings plus shares x price over the
\* stock holdings, in hundredths
Worth(account) ==
    SumSeq([j \in 1..Len(account.crypto) |->
                account.crypto[j].amount * prices[account.crypto[j].id][1]])
    + SumSeq([j \in 1..Len(account.stock) |->
                account.stock[j].shares * stock_prices[account.stock[j].symbol]])

\* C20: for every account whose holdings all have positive quantities and
\* known positive prices, the balance in its command is the sum of quantity x
\* price over its crypto holdings plus shares x price over its stock holdings,
\* written with 2 decimals.
C20_BalanceValue ==
    \A c \in 1..Len(returned) :
        \A k \in 1..Len(accounts) :
            (k <= Len(returned[c]) /\ AllPositiveAndPriced(accounts[k])) =>
                returned[c][k] =
                    CmdHead \o accounts[k].id \o CmdBalance \o Fmt2(Worth(accounts[k]))
                    \o CmdKey \o pl_api_key \o CmdTail

\* 10 shares of AAPL at 150 and 0.5 bitcoin at 60000 give 1500.00 and
\* 30000.00, in that order
C20_Witness ==
    /\ Len(returned) >= 1
    /\ accounts = <<AccountB, AccountD>>
    /\ AllPositiveAndPriced(AccountB)
    /\ AllPositiveAndPriced(AccountD)
    /\ prices["bitcoin"] = Num(600000)
    /\ StartsWith(returned[1][1], CmdHead \o <<"b", "2">> \o CmdBalance
                                    \o <<"1", "5", "0", "0", ".", "0", "0">> \o CmdKey)
    /\ StartsWith(returned[1][2], CmdHead \o <<"d", "4">> \o CmdBalance
                                    \o <<"3", "0", "0", "0", "0", ".", "0", "0">> \o CmdKey)

----------------------------------------------------------------------------
\* Properties of the browser session

\* update_projectionlab is over: it has returned, or driver.quit() has raised
\* out of its finally clause
SessionOver == spc \in {"returned", "raised"}

\* update_projectionlab is over and has not returned True
EndedInFailure == (spc = "returned" /\ ~result) \/ spc = "raised"

\* C1 (as claimed): against a page that rejects every code, one retry is
\* made and no third code is ever submitted.
C1_NoThirdCode ==
    (rejected >= Len(submitted)) => Len(submitted) <= 2

\* C6: once the browser has been started, driver.quit() is called exactly
\* once by the time update_projectionlab is over, whatever the exit path, and
\* never before; a call of driver.quit() that raises is not repeated.
C6_BrowserQuitOnce ==
    /\ quits <= 1
    /\ ~SessionOver => quits = 0 /\ browser # "quit"
    /\ spc = "returned" =>
        \/ browser = "none" /\ quits = 0
        \/ browser = "quit" /\ quits = 1
    /\ spc = "raised" => browser = "quit" /\ quits = 1

\* the function has returned because a command raised
C6_Witness ==
    /\ spc = "returned"
    /\ why = "command_failed"
    /\ browser = "quit"
    /\ quits = 1

\* C13 (as claimed): no command is invoked on the page unless
\* wait_for_login_completion saw the plugin API; when that wait times out no
\* command is invoked and update_projectionlab returns False.
C13_TimeoutReturnsFalse ==
    /\ executed # <<>> => login_successful
    /\ spc = "exec" => login_successful
    /\ why = "readiness_timeout"
        => spc = "returned" /\ ~result /\ executed = <<>> /\ ~login_successful

\* C13 (corrected): no command is invoked on the page unless
\* wait_for_login_completion saw the plugin API; when that wait times out no
\* command is invoked and update_projectionlab does not return True: it
\* returns False, or, when driver.quit() raises in the finally clause, it
\* ends by that exception, the browser quit once.
C13_WritesOnlyWhenReady ==
    /\ executed # <<>> => login_successful
    /\ spc = "exec" => login_successful
    /\ why = "readiness_timeout"
        => /\ EndedInFailure /\ executed = <<>> /\ ~login_successful
           /\ spc = "raised" => quits = 1 /\ browser = "quit"

\* the readiness wait has timed out with commands waiting, and the function
\* has returned
C13_Witness ==
    /\ why = "readiness_timeout"
    /\ elapsed >= login_timeout
    /\ Len(update_commands) > 0
    /\ spc = "returned"
    /\ executed = <<>>

\* C8 (as claimed): the commands invoked are a prefix of update_commands,
\* each once and in order; when a command fails no later command is invoked,
\* none is retried, and update_projectionlab returns False.
C8_FailureReturnsFalse ==
    /\ Len(executed) <= Len(update_commands)
    /\ \A k \in 1..Len(executed) :
        /\ executed[k].idx = k
        /\ ~executed[k].ok => k = Len(executed) /\ spc = "returned" /\ ~result

\* C8 (corrected): the commands invoked are a prefix of update_commands, each
\* once and in order; when a command fails no later command is invoked, none
\* is retried, and update_projectionlab does not return True: it returns
\* False, or, when driver.quit() raises in the finally clause, it ends by
\* that exception, the browser quit once; True is returned only after all
\* the commands.
C8_PrefixAndAbort ==
    /\ Len(executed) <= Len(update_commands)
    /\ \A k \in 1..Len(executed) :
        /\ executed[k].idx = k
        /\ ~executed[k].ok =>
            /\ k = Len(executed)
            /\ EndedInFailure
            /\ spc = "raised" => quits = 1 /\ browser = "quit"
    /\ (spc = "returned" /\ result) => Len(executed) = Len(update_commands)

\* the first of two commands failed and the second was never invoked
C8_Witness ==
    /\ spc = "returned"
    /\ Len(update_commands) = 2
    /\ Len(executed) = 1
    /\ ~executed[1].ok
    /\ ~result

\* handle_mfa_code found the OTP fields still there after its click and got no
\* code that differs from the one it had typed (lines 466-477)
MfaRejected == fresh_code # <<>> /\ submit_click = "clicked"

\* C21 (as claimed): when the OTP group is still there after a code was
\* submitted and the fresh code is the same or cannot be generated, no update
\* command is invoked and update_projectionlab returns False, whatever the
\* page does afterwards.
C21_RejectionIsFinal ==
    MfaRejected => executed = <<>> /\ (spc = "returned" => ~result)

\* C22 (as claimed): when a required control (sign-in-with-email, email,
\* password, credential submit, MFA submit) is found by none of its locators,
\* no update command is invoked and update_projectionlab returns False.
C22_ControlNotFoundIsFatal ==
    /\ why = "control_not_found" => EndedInFailure /\ executed = <<>>
    /\ submit_click = "not_found" => executed = <<>> /\ (spc = "returned" => ~result)

\* C23 (as claimed): if the page shows the OTP input group after the
\* credentials are submitted, a code is submitted before readiness detection;
\* if it does not, readiness detection is entered without a code.
C23_MfaDetection ==
    /\ (spc = "wait" /\ otp_group = "present") => Len(submitted) >= 1
    /\ (spc = "wait" /\ otp_group = "absent") => submitted = <<>>

\* a measure of what update_projectionlab still has before it: the calls of
\* handle_mfa_code the stack has room for, the seconds left of the readiness
\* wait, the commands left
Rank ==
    LET exec_top == Len(update_commands) + 2
        wait_top == exec_top + 2 + login_timeout + 10
        mfa_top == wait_top + 3 * RecursionLimit
    IN  CASE spc = "start" -> mfa_top + 8
          [] spc = "browser" -> mfa_top + 7
          [] spc = "signin" -> mfa_top + 6
          [] spc = "email" -> mfa_top + 5
          [] spc = "password" -> mfa_top + 4
          [] spc = "submit" -> mfa_top + 3
          [] spc = "totp" -> mfa_top + 2
          [] spc = "detect" -> mfa_top + 1
          [] spc = "mfa_enter" -> wait_top + 3 * (RecursionLimit - depth) + 3
          [] spc = "mfa_submit" -> wait_top + 3 * (RecursionLimit - depth) + 2
          [] spc = "mfa_result" -> wait_top + 3 * (RecursionLimit - depth) + 1
          [] spc = "wait" -> exec_top + 2 + (login_timeout + 10 - elapsed)
          [] spc = "api" -> exec_top + 1
          [] spc = "exec" -> 1 + (Len(update_commands) + 1 - ei)
          [] spc = "returned" -> 0
          [] spc = "raised" -> 0

\* C24 (as claimed): whatever the page and the code generator do, every run
\* of update_projectionlab eventually returns.
C24_AlwaysReturns == <>(spc = "returned")

\* C24 (corrected): whatever the page and the code generator do (a page that
\* keeps the OTP group for ever and a generator with a new code on every call
\* included), every step of update_projectionlab brings it nearer to its end,
\* and it ends: it returns, True with all the commands invoked or False, or,
\* when driver.quit() raises in the finally clause, it ends by that
\* exception, the browser quit once.
C24_SessionTerminates ==
    /\ [][Rank' < Rank]_vars
    /\ [](Rank >= 0)
    /\ <>[](\/ spc = "returned" /\ result /\ Len(executed) = Len(update_commands)
            \/ spc = "returned" /\ ~result
            \/ spc = "raised" /\ quits = 1 /\ browser = "quit")

\* the page kept the OTP group through every code the generator gave, a new
\* one on every call, until the stack had no room for another call of
\* handle_mfa_code, and the function has returned
C24_Witness ==
    /\ spc = "returned"
    /\ depth = RecursionLimit
    /\ Len(submitted) = RecursionLimit
    /\ rejected = RecursionLimit
    /\ mfa_code # Num(window)
    /\ \A a, b \in 1..Len(submitted) : submitted[a] = submitted[b] => a = b

EndsWith(s, suf) == Len(s) >= Len(suf) /\ SubSeq(s, Len(s) - Len(suf) + 1, Len(s)) = suf

\* C9 (as claimed): no logged command holds the write key or a part of it;
\* where the key stood the line has the marker and nothing else.
C9_KeyNeverLogged ==
    \A k \in 1..Len(execlog) :
        /\ ~Contains(execlog[k], pl_api_key)
        /\ EndsWith(execlog[k], Quote \o Marker \o CmdTail)

----------------------------------------------------------------------------
\* Properties of the lock file and of main

\* the runs between a successful obtain_lock and the end of their release_lock
Holders == {p \in Procs : lpc[p] \in {"held", "fetch", "body", "release", "release_remove"}}

\* C5 (as claimed): while the lock file is younger than the staleness
\* threshold at most one run holds the lock, and no run removes a file that
\* is not stale and that another run, still running, has written.
C5_MutualExclusion ==
    /\ []((lockfile.exists /\ ~IsStale(now, lockfile.mtime)) => Cardinality(Holders) <= 1)
    /\ [][\A p \in Procs :
            (lpc[p] \in {"remove", "release_remove"} /\ lpc'[p] # lpc[p]
             /\ lockfile.exists /\ ~lockfile'.exists)
            => (lockfile.pid = p \/ lockfile.pid \notin Holders
                \/ IsStale(now, lockfile.mtime))]_vars

\* C7: a run in which obtain_lock returned True has called release_lock when
\* the process exits, however the try block ended; a run in which obtain_lock
\* did not return True never calls release_lock.
C7_LockReleased ==
    /\ (lpc[Self] = "exited" /\ obtained[Self]) => releases[Self] >= 1
    /\ ~obtained[Self] => releases[Self] = 0

\* a run that took the lock and left the try block through sys.exit(1) has
\* exited with release_lock called
C7_Witness ==
    /\ lpc[Self] = "exited"
    /\ obtained[Self]
    /\ outcome \in {"no_prices", "update_failed"}
    /\ exit_code[Self] = 1
    /\ releases[Self] = 1

----------------------------------------------------------------------------
\* Properties of the waits of get_crypto_prices

\* a step of the retry loop that made a request
IsRequest == fpc = "fetch" /\ nreq' = nreq + 1

LastResp(r) == r[Len(r)]

\* the seconds a Retry-After header asks for, or the default without one
HeaderSeconds(r) == IF r.hdr = "absent" THEN retry_delay ELSE r.secs

\* the failures among the responses r that were not a 429
Transients(r) == {k \in 1..Len(r) : r[k].kind # "429"}

\* C11 (as claimed): after a 429 response the call waits exactly the seconds
\* of the Retry-After header, or the default delay without a header, adds no
\* backoff wait, and goes on to the next attempt.
C11_RetryAfterOverride ==
    [][(IsRequest /\ LastResp(resps').kind = "429")
        => /\ sleeps' = Append(sleeps, [why |-> "retry_after",
                                        secs |-> HeaderSeconds(LastResp(resps'))])
           /\ now' = now + HeaderSeconds(LastResp(resps'))
           /\ LoopRuns(attempt')]_vars

\* C12 (as claimed): the wait after a failure that is not a 429 is
\* retry_delay * 2^k, k being the number of earlier such failures of the
\* call, however many 429 responses came before; and the call gives up only
\* after max_retries such failures.
C12_BackoffIgnores429 ==
    [][/\ (IsRequest /\ LastResp(resps').kind # "429" /\ Len(sleeps') > Len(sleeps))
            => LastResp(sleeps').secs = retry_delay * Pow2(Cardinality(Transients(resps)))
       /\ (fpc = "fetch" /\ fpc' = "write" /\ ~got'.ok)
            => Cardinality(Transients(resps)) = max_retries]_vars

\* every usd entry of the body holds a number
UsdValuesAreNumbers(data) == \A i \in DOMAIN data : data[i].usd => ~IsNone(data[i].val)

\* C16: a 200 response whose usd entries hold numbers ends the call at once,
\* with no wait and no retry; the mapping returned has exactly the requested
\* ids as keys, an id with a usd entry maps to its value and an id without
\* one maps to None.
C16_PartialSuccess ==
    [][(IsRequest /\ LastResp(resps').kind = "ok" /\ UsdValuesAreNumbers(LastResp(resps').body))
        => LET data == LastResp(resps').body IN
           /\ fpc' = "write"
           /\ sleeps' = sleeps
           /\ DOMAIN prices' = fids
           /\ \A i \in fids :
                prices'[i] = IF i \in DOMAIN data /\ data[i].usd THEN data[i].val ELSE None]_vars

\* the first response held one of the two requested ids: the mapping has the
\* number for that id and None for the other
C16_Witness ==
    /\ fpc = "write"
    /\ got.ok
    /\ nreq = 1
    /\ Cardinality(fids) = 2
    /\ \E i \in fids : i \notin DOMAIN got.body /\ IsNone(prices[i])
    /\ \E j \in fids : j \in DOMAIN got.body /\ ~IsNone(prices[j])

\* C17 (as claimed): every entry of the mapping get_cached_crypto_prices
\* returns, fetched or cached, is a number >= 0 or None.
C17_PriceSnapshot ==
    (fpc = "idle" /\ ncalls > 0)
        => \A i \in DOMAIN prices : IsNone(prices[i]) \/ prices[i][1] >= 0

\* the run was turned away by obtain_lock because another run holds the lock
LockContention ==
    /\ mpc = "try"
    /\ outcome = "running"
    /\ ~obtained[Self]
    /\ ~lock_error[Self]

\* C14 (as claimed): the process ends with status 0 exactly on success, on the
\* completion of a validate-only run and on a skip due to lock contention,
\* and with status 1 otherwise.
C14_ExitCodes ==
    lpc[Self] = "exited"
    => /\ exit_code[Self] \in {0, 1}
       /\ exit_code[Self] = 0
            <=> (outcome \in {"success", "skipped", "validate_only"} \/ LockContention)

\* C25 (as claimed): a run that finds a lock file older than 3600 seconds
\* removes it, creates its own and goes on with the lock held; a run that
\* finds a lock file at most 3600 seconds old leaves it as it is, makes no
\* provider request, starts no browser and exits with status 0.
C25_StaleLockRecovery ==
    /\ [][(lpc[Self] = "getmtime" /\ lockfile.exists) =>
            IF now - lockfile.mtime > 3600
                THEN lpc'[Self] = "remove" /\ lockfile' = lockfile
                ELSE lpc'[Self] = "exited" /\ exit_code'[Self] = 0 /\ lockfile' = lockfile]_vars
    /\ [][(lpc[Self] = "remove" /\ lpc'[Self] # "remove") =>
            (~lockfile'.exists /\ lpc'[Self] = "create")]_vars
    \* the create that follows the removal: the run has read the age of a file
    /\ [][(lpc[Self] = "create" /\ lock_file_time[Self] > 0 /\ lpc'[Self] # "create") =>
            (lpc'[Self] = "held" /\ obtained'[Self] /\ lockfile' = LockFile(now, Self))]_vars
    /\ []((LockContention /\ lpc[Self] = "exited") =>
            /\ lockfile.exists /\ lockfile.pid # Self
            /\ now - lockfile.mtime <= 3600
            /\ nreq = 0 /\ ncalls = 0 /\ fpc = "idle"
            /\ browser = "none" /\ spc = "start" /\ executed = <<>>
            /\ exit_code[Self] = 0)

\* the mapping main obtained is not empty and holds no price at all
AllAbsent == DOMAIN prices # {} /\ \A i \in DOMAIN prices : IsNone(prices[i])

\* the step of main that looks at the mapping it obtained (line 729)
LooksAtPrices == InBody("prices") /\ mpc' # "prices"

\* C26: main gives up with status 1 at the price check exactly when the
\* mapping it obtained is empty, and then no balance has been computed; with a
\* mapping that is not empty and holds no price the run goes on, the crypto
\* holdings add nothing to the balances of its commands, and a run that ends
\* in success has pushed every command.
C26_FatalOnlyWhenEmpty ==
    /\ [][LooksAtPrices =>
            IF DOMAIN prices = {}
                THEN outcome' = "no_prices" /\ exit_code'[Self] = 1 /\ lpc'[Self] = "release"
                ELSE outcome' = "running" /\ mpc' = "stocks" /\ lpc'[Self] = "held"]_vars
    /\ [](outcome = "no_prices" =>
            cpc = 0 /\ update_commands = <<>> /\ spc = "start" /\ executed = <<>>)
    /\ []((AllAbsent /\ mpc \in {"stocks", "calc", "update", "finally"}) =>
            /\ outcome # "no_prices"
            /\ \A k \in 1..Len(update_commands) :
                    /\ totals[k] = SumValues(PricedShares(accounts[k].stock, stock_prices))
                    /\ \E balance \in BalanceTexts([total |-> totals[k],
                                                     summary |-> summaries[k]]) :
                            update_commands[k] = Command(accounts[k].id, balance, pl_api_key)
            /\ outcome = "success" =>
                    /\ Len(update_commands) = Len(accounts)
                    /\ Len(executed) = Len(update_commands)
                    /\ \A k \in 1..Len(executed) : executed[k].ok)

\* the provider answered without a price for bitcoin; the run has pushed a
\* balance of 1500.00 for the stock account and of 0.00 for the bitcoin account
C26_Witness ==
    /\ AllAbsent
    /\ DOMAIN prices = {"bitcoin"}
    /\ accounts = <<AccountB, AccountD>>
    /\ outcome = "success"
    /\ Len(executed) = 2
    /\ update_commands = <<Command(<<"b", "2">>, Fmt2(150000), pl_api_key),
                           Command(<<"d", "4">>, Fmt2(0), pl_api_key)>>
    /\ lpc[Self] = "exited"
    /\ exit_code[Self] = 0

\* C15: a validate-only run makes no provider request, starts no browser,
\* invokes no command and leaves the lock file as it found it; it does not
\* even reach obtain_lock.
C15_ValidateOnly ==
    /\ [](env.validate_only
            => /\ nreq = 0 /\ ncalls = 0 /\ fpc = "idle"
               /\ browser = "none" /\ spc = "start"
               /\ executed = <<>>
               /\ lpc[Self] \in {"idle", "exited"}
               /\ releases[Self] = 0)
    /\ [][env.validate_only => lockfile' = lockfile]_vars

\* a validate-only run with valid settings has ended, next to the lock file
\* of another run
C15_Witness ==
    /\ env.validate_only
    /\ outcome = "validate_only"
    /\ lpc[Self] = "exited"
    /\ exit_code[Self] = 0
    /\ lockfile.exists

====
